---- MODULE Spec2Model ----
(***************************************************************************)
(* Backend/scripts/blender_export.py and Backend/scripts/maya_export.py:   *)
(* two single-pass export scripts.  One run of one script is modelled per  *)
(* behaviour.  Every call into the host application is one atomic step     *)
(* that either returns or raises; what the host returns (the objects of a  *)
(* file, the saved selection, the size of the written file) is chosen by   *)
(* the host, not by the script.                                            *)
(***************************************************************************)
EXTENDS Integers, Sequences, FiniteSets, TLC

\* Bounds of the model.
MaxObjs == 3
MaxArgs == 2
MaxFileSize == 2

VARIABLES
    script,       \* "blender" | "maya": which script this run executes
    argv,         \* sys.argv
    pc,           \* position of the run in the script
    input_file,   \* blender :80 / maya :57
    output_file,  \* blender :81 / maya :58
    stdout,       \* the lines printed so far, as records
    exitCode,     \* the process exit code, meaningful once pc = "done"
    exc,          \* the exception in flight (or the one that ended the run)
    hostOps,      \* the host calls made so far, each with its outcome
    scene,        \* objects of the host's active scene
    selected,     \* objects selected in the host
    data_to,      \* blender :13-16, the objects the library load returned
    iter,         \* the elements a running for loop has still to visit
    mesh_count,   \* blender :26
    fs,           \* the file at the output path: [exists, size]
    applied,      \* objects whose transforms transform_apply baked
    exported,     \* objects the host's exporter was asked to write
    meshes,       \* maya :17
    transforms,   \* maya :24
    initialized,  \* maya.standalone is initialized
    uninitCalls   \* number of maya.standalone.uninitialize() calls

vars == <<script, argv, pc, input_file, output_file, stdout, exitCode, exc,
          hostOps, scene, selected, data_to, iter, mesh_count, fs, applied,
          exported, meshes, transforms, initialized, uninitCalls>>

----------------------------------------------------------------------------
\* Host objects and their types.

Objs == 1..MaxObjs

\* obj.type (blender) / node type (maya): odd objects are meshes, even ones
\* are not (a camera, a light, an empty).
ObjType(o) == IF o % 2 = 1 THEN "MESH" ELSE "CAMERA"

\* blender :28 and :36, `obj.type == 'MESH'`
IsMeshAny(o) == TRUE
IsMesh(o) == ObjType(o) = "MESH"

\* Iteration order of a for loop over a host collection.
First(S) == CHOOSE x \in S : \A y \in S : x <= y

RECURSIVE SetToList(_)
SetToList(S) == IF S = {} THEN <<>> ELSE <<First(S)>> \o SetToList(S \ {First(S)})

Outcomes == {"ok", "raise"}

NoExc == [cls |-> "none", msg |-> ""]
\* An Exception raised by operation op; str(e) is its message text.
Error(op) == [cls |-> "Exception", msg |-> op]
\* sys.exit(1) raises SystemExit(1), whose str() is "1".
SystemExit == [cls |-> "SystemExit", msg |-> "1"]

Call(op, r) == [op |-> op, result |-> r]

----------------------------------------------------------------------------
\* Standard output records.

\* json.dumps({"error": msg})
ErrorRecord(msg) == [kind |-> "error", error |-> msg]

\* "EXPORT_RESULT:" + json.dumps(stats)
SuccessRecord(n, path, size) ==
    [kind |-> "EXPORT_RESULT", success |-> TRUE, meshCount |-> n,
     outputPath |-> path, fileSize |-> size]

UsageMsg == "Usage: blender --python script.py -- input.blend output.glb"
NoMeshMsg == "No mesh objects found in file"

----------------------------------------------------------------------------
\* Command lines.

Arg(i) == IF i = 1 THEN "input" ELSE IF i = 2 THEN "output" ELSE "extra"
ArgList(n) == [i \in 1..n |-> Arg(i)]

\* What Blender puts in sys.argv before the separator.
BlenderPrefixes ==
    { <<"blender", "--python", "script.py">>,
      <<"blender", "--background", "--python", "script.py">> }

BlenderArgvs ==
    BlenderPrefixes
    \cup { p \o <<"--">> \o ArgList(n) : p \in BlenderPrefixes, n \in 0..MaxArgs }

MayaArgvs == { <<"maya_export.py">> \o ArgList(n) : n \in 0..MaxArgs }

\* sys.argv.index("--"), 0 when "--" is not in the list (Python raises ValueError)
IndexOfSep(a) ==
    IF \E i \in 1..Len(a) : a[i] = "--"
    THEN CHOOSE i \in 1..Len(a) : a[i] = "--" /\ \A j \in 1..(i-1) : a[j] # "--"
    ELSE 0

\* sys.argv[sys.argv.index("--") + 1:]
ArgsAfterSep(a) == SubSeq(a, IndexOfSep(a) + 1, Len(a))

\* blender :74, `len(sys.argv) < 4`
UsageGuard(a) == Len(a) < 4

\* The exit code of a run that ends in an uncaught exception.  The Python
\* interpreter of the animation host exits 1; the modelling host exits 0 or
\* a non-zero code depending on how it was launched.
UncaughtExit == IF script = "blender" THEN {0, 1} ELSE {1}

NoFile == [exists |-> FALSE, size |-> 0]
Files == {NoFile} \cup { [exists |-> TRUE, size |-> n] : n \in 1..MaxFileSize }

----------------------------------------------------------------------------
Init ==
    /\ script \in {"blender", "maya"}
    /\ argv \in (IF script = "blender" THEN BlenderArgvs ELSE MayaArgvs)
    /\ pc = IF script = "blender" THEN "main" ELSE "import"
    /\ input_file = ""
    /\ output_file = ""
    /\ stdout = <<>>
    /\ exitCode = 0
    /\ exc = NoExc
    /\ hostOps = <<>>
    /\ scene = IF script = "blender" THEN Objs ELSE {}
    /\ selected = {}
    /\ data_to = {}
    /\ iter = {}
    /\ mesh_count = 0
    /\ fs \in {NoFile, [exists |-> TRUE, size |-> 1]}
    /\ applied = {}
    /\ exported = {}
    /\ meshes = <<>>
    /\ transforms = <<>>
    /\ initialized = FALSE
    /\ uninitCalls = 0

\* Variables only the OBJ exporter touches / only the GLB exporter touches.
mayaOnly == <<meshes, transforms, initialized, uninitCalls>>
glbOnly == <<data_to, mesh_count, applied>>

----------------------------------------------------------------------------
\* GLB exporter, __main__ (blender_export.py :73-83)

\* :74-76
main_usage ==
    /\ script = "blender" /\ pc = "main"
    /\ IF UsageGuard(argv)
       THEN /\ stdout' = Append(stdout, ErrorRecord(UsageMsg))
            /\ exc' = SystemExit
            /\ exitCode' = 1
            /\ pc' = "done"
       ELSE /\ pc' = "args"
            /\ UNCHANGED <<stdout, exc, exitCode>>
    /\ UNCHANGED <<script, argv, input_file, output_file, hostOps, scene,
                   selected, iter, fs, exported>>
    /\ UNCHANGED <<glbOnly, mayaOnly>>

\* :79-81, outside any try block: a ValueError of index() or an IndexError of
\* args[0] / args[1] ends the run with a traceback and nothing on stdout.
main_args ==
    /\ script = "blender" /\ pc = "args"
    /\ IF IndexOfSep(argv) = 0
       THEN /\ exc' = Error("ValueError")
            /\ exitCode' \in UncaughtExit
            /\ pc' = "done"
            /\ UNCHANGED <<input_file, output_file>>
       ELSE IF Len(ArgsAfterSep(argv)) < 2
       THEN /\ exc' = Error("IndexError")
            /\ exitCode' \in UncaughtExit
            /\ pc' = "done"
            /\ UNCHANGED <<input_file, output_file>>
       ELSE /\ input_file' = ArgsAfterSep(argv)[1]
            /\ output_file' = ArgsAfterSep(argv)[2]
            /\ pc' = "reset"
            /\ UNCHANGED <<exc, exitCode>>
    /\ UNCHANGED <<script, argv, stdout, hostOps, scene, selected, iter, fs,
                   exported>>
    /\ UNCHANGED <<glbOnly, mayaOnly>>

----------------------------------------------------------------------------
\* GLB exporter, export_to_glb (blender_export.py :7-71)

\* :9, before the try block
read_factory_settings ==
    /\ script = "blender" /\ pc = "reset"
    /\ \E r \in Outcomes :
        /\ hostOps' = Append(hostOps, Call("read_factory_settings", r))
        /\ IF r = "ok"
           THEN /\ scene' = {}
                /\ selected' = {}
                /\ pc' = "load"
                /\ UNCHANGED <<exc, exitCode>>
           ELSE /\ exc' = Error("read_factory_settings")
                /\ exitCode' \in UncaughtExit
                /\ pc' = "done"
                /\ UNCHANGED <<scene, selected>>
    /\ UNCHANGED <<script, argv, input_file, output_file, stdout, iter, fs,
                   exported>>
    /\ UNCHANGED <<glbOnly, mayaOnly>>

\* :13-16; data_to holds the objects that were loaded (the entries that are
\* not None), the loop of :20 visits them.
libraries_load ==
    /\ script = "blender" /\ pc = "load"
    /\ \E r \in Outcomes :
        /\ hostOps' = Append(hostOps, Call("libraries.load", r))
        /\ IF r = "ok"
           THEN /\ \E loaded \in SUBSET Objs :
                     /\ data_to' = loaded
                     /\ iter' = loaded
                /\ pc' = "link"
                /\ UNCHANGED exc
           ELSE /\ exc' = Error("libraries.load")
                /\ pc' = "unwind"
                /\ UNCHANGED <<data_to, iter>>
    /\ UNCHANGED <<script, argv, input_file, output_file, stdout, exitCode,
                   scene, selected, fs, exported, mesh_count, applied>>
    /\ UNCHANGED mayaOnly

\* :19-22, one iteration
link ==
    /\ script = "blender" /\ pc = "link" /\ iter # {}
    /\ \E r \in Outcomes :
        /\ hostOps' = Append(hostOps, Call("link", r))
        /\ IF r = "ok"
           THEN /\ scene' = scene \cup {First(iter)}
                /\ iter' = iter \ {First(iter)}
                /\ UNCHANGED <<exc, pc>>
           ELSE /\ exc' = Error("link")
                /\ pc' = "unwind"
                /\ UNCHANGED <<scene, iter>>
    /\ UNCHANGED <<script, argv, input_file, output_file, stdout, exitCode,
                   selected, fs, exported>>
    /\ UNCHANGED <<glbOnly, mayaOnly>>

\* :25-27
select_all ==
    /\ script = "blender" /\ pc = "link" /\ iter = {}
    /\ \E r \in Outcomes :
        /\ hostOps' = Append(hostOps, Call("select_all", r))
        /\ IF r = "ok"
           THEN /\ selected' = {}
                /\ mesh_count' = 0
                /\ iter' = scene
                /\ pc' = "count"
                /\ UNCHANGED exc
           ELSE /\ exc' = Error("select_all")
                /\ pc' = "unwind"
                /\ UNCHANGED <<selected, mesh_count, iter>>
    /\ UNCHANGED <<script, argv, input_file, output_file, stdout, exitCode,
                   scene, fs, exported, data_to, applied>>
    /\ UNCHANGED mayaOnly

\* :27-30 and :35-38, one iteration of either counting loop
select_set ==
    /\ script = "blender" /\ pc \in {"count", "recount"} /\ iter # {}
    /\ IF IsMesh(First(iter))
       THEN \E r \in Outcomes :
            /\ hostOps' = Append(hostOps, Call("select_set", r))
            /\ IF r = "ok"
               THEN /\ selected' = selected \cup {First(iter)}
                    /\ mesh_count' = mesh_count + 1
                    /\ iter' = iter \ {First(iter)}
                    /\ UNCHANGED <<exc, pc>>
               ELSE /\ exc' = Error("select_set")
                    /\ pc' = "unwind"
                    /\ UNCHANGED <<selected, mesh_count, iter>>
       ELSE /\ iter' = iter \ {First(iter)}
            /\ UNCHANGED <<hostOps, selected, mesh_count, exc, pc>>
    /\ UNCHANGED <<script, argv, input_file, output_file, stdout, exitCode,
                   scene, fs, exported, data_to, applied>>
    /\ UNCHANGED mayaOnly

\* :32, `if mesh_count == 0`
NeedsFallbackLoose(n) == n <= 1
NeedsFallback(n) == n = 0

\* :32-35; the opened file brings its own scene and its saved selection
open_mainfile ==
    /\ script = "blender" /\ pc = "count" /\ iter = {}
    /\ NeedsFallback(mesh_count)
    /\ \E r \in Outcomes :
        /\ hostOps' = Append(hostOps, Call("open_mainfile", r))
        /\ IF r = "ok"
           THEN /\ \E objs \in SUBSET Objs : \E sel \in SUBSET objs :
                     /\ scene' = objs
                     /\ selected' = sel
                     /\ iter' = objs
                /\ pc' = "recount"
                /\ UNCHANGED exc
           ELSE /\ exc' = Error("open_mainfile")
                /\ pc' = "unwind"
                /\ UNCHANGED <<scene, selected, iter>>
    /\ UNCHANGED <<script, argv, input_file, output_file, stdout, exitCode,
                   fs, exported>>
    /\ UNCHANGED <<glbOnly, mayaOnly>>

\* :40-42; sys.exit(1) raises SystemExit inside the try block
validate ==
    /\ script = "blender" /\ iter = {}
    /\ \/ pc = "count" /\ ~NeedsFallback(mesh_count)
       \/ pc = "recount"
    /\ IF mesh_count = 0
       THEN /\ stdout' = Append(stdout, ErrorRecord(NoMeshMsg))
            /\ exc' = SystemExit
            /\ pc' = "unwind"
       ELSE /\ pc' = "transform"
            /\ UNCHANGED <<stdout, exc>>
    /\ UNCHANGED <<script, argv, input_file, output_file, exitCode, hostOps,
                   scene, selected, iter, fs, exported>>
    /\ UNCHANGED <<glbOnly, mayaOnly>>

\* :45
transform_apply ==
    /\ script = "blender" /\ pc = "transform"
    /\ \E r \in Outcomes :
        /\ hostOps' = Append(hostOps, Call("transform_apply", r))
        /\ IF r = "ok"
           THEN /\ applied' = selected
                /\ pc' = "export"
                /\ UNCHANGED exc
           ELSE /\ exc' = Error("transform_apply")
                /\ pc' = "unwind"
                /\ UNCHANGED applied
    /\ UNCHANGED <<script, argv, input_file, output_file, stdout, exitCode,
                   scene, selected, iter, fs, exported, data_to, mesh_count>>
    /\ UNCHANGED mayaOnly

\* :48-58, use_selection=False: the whole scene is exported.  The exporter
\* may raise before or after it wrote the file, and may return without
\* having written a file at the path.
export_scene_gltf ==
    /\ script = "blender" /\ pc = "export"
    /\ \E r \in Outcomes :
        /\ hostOps' = Append(hostOps, Call("export_scene.gltf", r))
        /\ exported' = scene
        /\ fs' \in {fs} \cup (Files \ {NoFile})
        /\ IF r = "ok"
           THEN /\ pc' = "stats"
                /\ UNCHANGED exc
           ELSE /\ exc' = Error("export_scene.gltf")
                /\ pc' = "unwind"
    /\ UNCHANGED <<script, argv, input_file, output_file, stdout, exitCode,
                   scene, selected, iter>>
    /\ UNCHANGED <<glbOnly, mayaOnly>>

\* :61-67; os.path.getsize raises OSError when the file does not exist
stats_glb ==
    /\ script = "blender" /\ pc = "stats"
    /\ IF fs.exists
       THEN /\ hostOps' = Append(hostOps, Call("getsize", "ok"))
            /\ stdout' = Append(stdout,
                                SuccessRecord(mesh_count, output_file, fs.size))
            /\ exitCode' = 0
            /\ pc' = "done"
            /\ UNCHANGED exc
       ELSE /\ hostOps' = Append(hostOps, Call("getsize", "raise"))
            /\ exc' = Error("getsize")
            /\ pc' = "unwind"
            /\ UNCHANGED <<stdout, exitCode>>
    /\ UNCHANGED <<script, argv, input_file, output_file, scene, selected,
                   iter, fs, exported>>
    /\ UNCHANGED <<glbOnly, mayaOnly>>

\* :69, `except Exception as e`
CatchesAll(e) == TRUE
Catches(e) == e.cls = "Exception"

\* :69-71
except_glb ==
    /\ script = "blender" /\ pc = "unwind"
    /\ Catches(exc)
    /\ stdout' = Append(stdout, ErrorRecord(exc.msg))
    /\ exc' = SystemExit
    /\ exitCode' = 1
    /\ pc' = "done"
    /\ UNCHANGED <<script, argv, input_file, output_file, hostOps, scene,
                   selected, iter, fs, exported>>
    /\ UNCHANGED <<glbOnly, mayaOnly>>

\* :42 -> process exit: SystemExit is no Exception and leaves the try block
exit_glb ==
    /\ script = "blender" /\ pc = "unwind"
    /\ ~Catches(exc)
    /\ exitCode' = 1
    /\ pc' = "done"
    /\ UNCHANGED <<script, argv, input_file, output_file, stdout, exc, hostOps,
                   scene, selected, iter, fs, exported>>
    /\ UNCHANGED <<glbOnly, mayaOnly>>

----------------------------------------------------------------------------
\* OBJ exporter, module level (maya_export.py :2-3 and :56-59)

\* :3, runs when the module is loaded, before sys.argv is read
standalone_initialize ==
    /\ script = "maya" /\ pc = "import"
    /\ \E r \in Outcomes :
        /\ hostOps' = Append(hostOps, Call("standalone.initialize", r))
        /\ IF r = "ok"
           THEN /\ initialized' = TRUE
                /\ pc' = "main"
                /\ UNCHANGED <<exc, exitCode>>
           ELSE /\ exc' = Error("standalone.initialize")
                /\ exitCode' \in UncaughtExit
                /\ pc' = "done"
                /\ UNCHANGED initialized
    /\ UNCHANGED <<script, argv, input_file, output_file, stdout, scene,
                   selected, iter, fs, exported, meshes, transforms,
                   uninitCalls>>
    /\ UNCHANGED glbOnly

\* :57-58, outside any try block: sys.argv[1] / sys.argv[2] raise IndexError
\* when the argument is missing.
main_obj ==
    /\ script = "maya" /\ pc = "main"
    /\ IF Len(argv) < 3
       THEN /\ exc' = Error("IndexError")
            /\ exitCode' \in UncaughtExit
            /\ pc' = "done"
            /\ UNCHANGED <<input_file, output_file>>
       ELSE /\ input_file' = argv[2]
            /\ output_file' = argv[3]
            /\ pc' = "open"
            /\ UNCHANGED <<exc, exitCode>>
    /\ UNCHANGED <<script, argv, stdout, hostOps, scene, selected, iter, fs,
                   exported>>
    /\ UNCHANGED <<glbOnly, mayaOnly>>

----------------------------------------------------------------------------
\* OBJ exporter, export_to_obj (maya_export.py :11-54)

\* :14
file_open ==
    /\ script = "maya" /\ pc = "open"
    /\ \E r \in Outcomes :
        /\ hostOps' = Append(hostOps, Call("file.open", r))
        /\ IF r = "ok"
           THEN /\ \E objs \in SUBSET Objs : \E sel \in SUBSET objs :
                     /\ scene' = objs
                     /\ selected' = sel
                /\ pc' = "ls"
                /\ UNCHANGED exc
           ELSE /\ exc' = Error("file.open")
                /\ pc' = "unwind"
                /\ UNCHANGED <<scene, selected>>
    /\ UNCHANGED <<script, argv, input_file, output_file, stdout, exitCode,
                   iter, fs, exported>>
    /\ UNCHANGED <<glbOnly, mayaOnly>>

\* :17, cmds.ls(type='mesh'): the mesh-shape nodes of the scene, as a list
ls ==
    /\ script = "maya" /\ pc = "ls"
    /\ \E r \in Outcomes :
        /\ hostOps' = Append(hostOps, Call("ls", r))
        /\ IF r = "ok"
           THEN /\ meshes' = SetToList({o \in scene : ObjType(o) = "MESH"})
                /\ pc' = "check"
                /\ UNCHANGED exc
           ELSE /\ exc' = Error("ls")
                /\ pc' = "unwind"
                /\ UNCHANGED meshes
    /\ UNCHANGED <<script, argv, input_file, output_file, stdout, exitCode,
                   scene, selected, iter, fs, exported, transforms,
                   initialized, uninitCalls>>
    /\ UNCHANGED glbOnly

\* :19-25
validate_obj ==
    /\ script = "maya" /\ pc = "check"
    /\ IF meshes = <<>>
       THEN /\ stdout' = Append(stdout, ErrorRecord(NoMeshMsg))
            /\ exc' = SystemExit
            /\ pc' = "unwind"
            /\ UNCHANGED <<transforms, iter>>
       ELSE /\ transforms' = <<>>
            /\ iter' = 1..Len(meshes)
            /\ pc' = "parents"
            /\ UNCHANGED <<stdout, exc>>
    /\ UNCHANGED <<script, argv, input_file, output_file, exitCode, hostOps,
                   scene, selected, fs, exported, meshes, initialized,
                   uninitCalls>>
    /\ UNCHANGED glbOnly

\* :25-28, one iteration; the shape's parent list is None or its transform
listRelatives ==
    /\ script = "maya" /\ pc = "parents" /\ iter # {}
    /\ \E r \in Outcomes :
        /\ hostOps' = Append(hostOps, Call("listRelatives", r))
        /\ IF r = "ok"
           THEN /\ \E parent \in {<<>>, <<meshes[First(iter)]>>} :
                     transforms' = transforms \o parent
                /\ iter' = iter \ {First(iter)}
                /\ UNCHANGED <<exc, pc>>
           ELSE /\ exc' = Error("listRelatives")
                /\ pc' = "unwind"
                /\ UNCHANGED <<transforms, iter>>
    /\ UNCHANGED <<script, argv, input_file, output_file, stdout, exitCode,
                   scene, selected, fs, exported, meshes, initialized,
                   uninitCalls>>
    /\ UNCHANGED glbOnly

\* :30-31
select ==
    /\ script = "maya" /\ pc = "parents" /\ iter = {}
    /\ IF transforms # <<>>
       THEN \E r \in Outcomes :
            /\ hostOps' = Append(hostOps, Call("select", r))
            /\ IF r = "ok"
               THEN /\ selected' = {transforms[i] : i \in 1..Len(transforms)}
                    /\ pc' = "export"
                    /\ UNCHANGED exc
               ELSE /\ exc' = Error("select")
                    /\ pc' = "unwind"
                    /\ UNCHANGED selected
       ELSE /\ pc' = "export"
            /\ UNCHANGED <<hostOps, selected, exc>>
    /\ UNCHANGED <<script, argv, input_file, output_file, stdout, exitCode,
                   scene, iter, fs, exported>>
    /\ UNCHANGED <<glbOnly, mayaOnly>>

\* :34-40, exportSelected=True.  The exporter may raise before or after it
\* wrote the file, and may return without having written a file at the path.
file_export ==
    /\ script = "maya" /\ pc = "export"
    /\ \E r \in Outcomes :
        /\ hostOps' = Append(hostOps, Call("file.export", r))
        /\ exported' = selected
        /\ fs' \in {fs} \cup (Files \ {NoFile})
        /\ IF r = "ok"
           THEN /\ pc' = "stats"
                /\ UNCHANGED exc
           ELSE /\ exc' = Error("file.export")
                /\ pc' = "unwind"
    /\ UNCHANGED <<script, argv, input_file, output_file, stdout, exitCode,
                   scene, selected, iter>>
    /\ UNCHANGED <<glbOnly, mayaOnly>>

\* :46, `os.path.getsize(output_path) if os.path.exists(output_path) else 0`
SizeOrZeroInverted(f) == IF f.exists THEN 0 ELSE f.size
SizeOrZero(f) == IF f.exists THEN f.size ELSE 0

\* :42-48
stats_obj ==
    /\ script = "maya" /\ pc = "stats"
    /\ stdout' = Append(stdout,
                        SuccessRecord(Len(meshes), output_file, SizeOrZero(fs)))
    /\ pc' = "finally"
    /\ UNCHANGED <<script, argv, input_file, output_file, exitCode, exc,
                   hostOps, scene, selected, iter, fs, exported>>
    /\ UNCHANGED <<glbOnly, mayaOnly>>

\* :50, `except Exception as e`
CatchesObj(e) == e.cls = "Exception"

\* :50-52; sys.exit(1) raises SystemExit, the finally clause runs next
except_obj ==
    /\ script = "maya" /\ pc = "unwind"
    /\ CatchesObj(exc)
    /\ stdout' = Append(stdout, ErrorRecord(exc.msg))
    /\ exc' = SystemExit
    /\ pc' = "finally"
    /\ UNCHANGED <<script, argv, input_file, output_file, exitCode, hostOps,
                   scene, selected, iter, fs, exported>>
    /\ UNCHANGED <<glbOnly, mayaOnly>>

\* :21 -> :53: SystemExit is no Exception; the finally clause runs next
exit_obj ==
    /\ script = "maya" /\ pc = "unwind"
    /\ ~CatchesObj(exc)
    /\ pc' = "finally"
    /\ UNCHANGED <<script, argv, input_file, output_file, stdout, exitCode,
                   exc, hostOps, scene, selected, iter, fs, exported>>
    /\ UNCHANGED <<glbOnly, mayaOnly>>

\* :53-54, then the process ends: with code 0 after a normal return, with
\* code 1 when SystemExit(1) is in flight, with a traceback when
\* uninitialize() itself raises.
standalone_uninitialize ==
    /\ script = "maya" /\ pc = "finally"
    /\ uninitCalls' = uninitCalls + 1
    /\ \E r \in Outcomes :
        /\ hostOps' = Append(hostOps, Call("standalone.uninitialize", r))
        /\ IF r = "ok"
           THEN /\ initialized' = FALSE
                /\ exitCode' = IF exc.cls = "none" THEN 0 ELSE 1
                /\ UNCHANGED exc
           ELSE /\ exc' = Error("standalone.uninitialize")
                /\ exitCode' \in UncaughtExit
                /\ UNCHANGED initialized
    /\ pc' = "done"
    /\ UNCHANGED <<script, argv, input_file, output_file, stdout, scene,
                   selected, iter, fs, exported, meshes, transforms>>
    /\ UNCHANGED glbOnly

----------------------------------------------------------------------------
Next ==
    \/ main_usage
    \/ main_args
    \/ read_factory_settings
    \/ libraries_load
    \/ link
    \/ select_all
    \/ select_set
    \/ open_mainfile
    \/ validate
    \/ transform_apply
    \/ export_scene_gltf
    \/ stats_glb
    \/ except_glb
    \/ exit_glb
    \/ standalone_initialize
    \/ main_obj
    \/ file_open
    \/ ls
    \/ validate_obj
    \/ listRelatives
    \/ select
    \/ file_export
    \/ stats_obj
    \/ except_obj
    \/ exit_obj
    \/ standalone_uninitialize

Spec == Init /\ [][Next]_vars

----------------------------------------------------------------------------
\* Vocabulary of the properties.

Terminated == pc = "done"

Printed(kind) == { i \in 1..Len(stdout) : stdout[i].kind = kind }
SuccessPrinted == Printed("EXPORT_RESULT") # {}
ErrorPrinted == Printed("error") # {}
\* The success record of the run, when one was printed.
Stats == stdout[First(Printed("EXPORT_RESULT"))]

Calls(op) == { i \in 1..Len(hostOps) : hostOps[i].op = op }
Returned(op) == { i \in Calls(op) : hostOps[i].result = "ok" }
Raised == { i \in 1..Len(hostOps) : hostOps[i].result = "raise" }

MeshObjects(S) == { o \in S : ObjType(o) = "MESH" }

\* The positional arguments that follow the separator on the command line.
Positional(a) == IF IndexOfSep(a) = 0 THEN <<>> ELSE ArgsAfterSep(a)

\* The host scene operations of the GLB exporter.
SceneOps == {"read_factory_settings", "libraries.load", "link", "select_all",
             "select_set", "open_mainfile", "transform_apply",
             "export_scene.gltf"}

\* The place of each GLB host operation in the documented sequence.
Rank(op) ==
    CASE op = "read_factory_settings" -> 1
      [] op = "libraries.load" -> 2
      [] op = "link" -> 3
      [] op = "select_all" -> 4
      [] op = "open_mainfile" -> 5
      [] op = "select_set" -> 6
      [] op = "transform_apply" -> 7
      [] op = "export_scene.gltf" -> 8
      [] OTHER -> 9

Repeats(op) == op \in {"link", "select_set"}

\* The number of meshes the library-load path counted: the select_set calls
\* that returned before the fallback open (all of them when there was none).
LibCount ==
    Cardinality({ i \in Returned("select_set") :
                    \A j \in Calls("open_mainfile") : i < j })

\* The run is past the decision of line 32.
PastFallbackCheck ==
    \/ pc \in {"recount", "transform", "export", "stats"}
    \/ Calls("open_mainfile") # {}
    \/ Calls("transform_apply") # {}
    \/ \E i \in Printed("error") : stdout[i].error = NoMeshMsg

\* The fallback open returned a scene without meshes (the library-load path
\* had counted none, or the fallback would not have run) and the recount is over.
EmptyAfterFallback ==
    /\ script = "blender"
    /\ Returned("open_mainfile") # {}
    /\ MeshObjects(scene) = {}
    /\ pc \in {"unwind", "done"} \/ (pc = "recount" /\ iter = {})

----------------------------------------------------------------------------
\* C1: GLB exporter; a run whose command line has fewer than two positional
\* arguments after the separator prints the usage error record, exits with
\* code 1 and makes no host scene call.
C1_UsageOnMissingArgs ==
    (script = "blender" /\ Terminated /\ Len(Positional(argv)) < 2)
    => /\ stdout = <<ErrorRecord(UsageMsg)>>
       /\ exitCode = 1
       /\ hostOps = <<>>

\* C2: both scripts; a finished run has written exactly one status line to
\* standard output, a success record or an error record.
C2_ExactlyOneLine ==
    Terminated => Len(stdout) = 1

\* C3: GLB exporter; when a host operation of the sequence raised, the run
\* ends with one error record carrying that exception's message, exit code 1
\* and no success record.
C3_ExceptionTranslated ==
    (script = "blender" /\ Terminated)
    => \A i \in Raised :
         /\ stdout = <<ErrorRecord(hostOps[i].op)>>
         /\ exitCode = 1
         /\ ~SuccessPrinted

\* C4: OBJ exporter; a finished run that initialized the host runtime has
\* uninitialized it exactly once, and a run over a file without mesh shapes
\* prints the no-mesh error, exits 1 and never calls the export.
C4_UninitializedOnce ==
    (script = "maya" /\ Terminated /\ Returned("standalone.initialize") # {})
    => /\ uninitCalls = 1
       /\ (Returned("ls") # {} /\ meshes = <<>>)
          => /\ stdout = <<ErrorRecord(NoMeshMsg)>>
             /\ exitCode = 1
             /\ Calls("file.export") = {}

\* C5: GLB exporter; when neither the library load nor the fallback open
\* gives a mesh object, the no-mesh error is printed exactly once, the exit
\* code is 1, transform apply and export are never called, the output file
\* is left as it was and no success record is printed.
C5_EmptyScene ==
    EmptyAfterFallback
    => /\ LibCount = 0
       /\ Calls("transform_apply") = {}
       /\ Calls("export_scene.gltf") = {}
       /\ exported = {}
       /\ ~SuccessPrinted
       /\ Len(stdout) <= 1
       /\ pc \in {"unwind", "done"} => stdout = <<ErrorRecord(NoMeshMsg)>>
       /\ Terminated => exitCode = 1

C5_Witness ==
    /\ EmptyAfterFallback
    /\ Terminated
    /\ scene # {}
    /\ stdout = <<ErrorRecord(NoMeshMsg)>>

\* C6: GLB exporter; a printed success record has meshCount equal to the
\* number of mesh-typed objects of the exported scene, each counted by one
\* select_set call, meshCount >= 1, and fileSize equal to the size of the
\* file at the output path.
C6_SuccessRecordGlb ==
    (script = "blender" /\ SuccessPrinted)
    => /\ Stats.meshCount = Cardinality(MeshObjects(exported))
       /\ Stats.meshCount = Cardinality(Returned("select_set"))
       /\ Stats.meshCount >= 1
       /\ exported = scene
       /\ fs.exists
       /\ Stats.fileSize = fs.size
       /\ Stats.outputPath = "output"

C6_Witness ==
    /\ script = "blender"
    /\ SuccessPrinted
    /\ Returned("open_mainfile") # {}
    /\ Stats.meshCount = 2
    /\ Cardinality(scene) > 2
    /\ Stats.fileSize = MaxFileSize

\* C7, as stated: OBJ exporter; a printed success record has meshCount equal
\* to the number of mesh shapes the scene query returned (>= 1), the output
\* file exists and fileSize is its size.
C7_SuccessImpliesFile ==
    (script = "maya" /\ SuccessPrinted)
    => /\ Stats.meshCount = Len(meshes)
       /\ Stats.meshCount >= 1
       /\ fs.exists
       /\ Stats.fileSize = fs.size

\* C7, amended: OBJ exporter; a printed success record has meshCount equal
\* to the number of mesh shapes the scene query returned (>= 1), and fileSize
\* is the size of the output file when that file exists and 0 when it does not.
C7_SuccessRecordObj ==
    (script = "maya" /\ SuccessPrinted)
    => /\ Stats.meshCount = Len(meshes)
       /\ Stats.meshCount = Cardinality(MeshObjects(scene))
       /\ Stats.meshCount >= 1
       /\ Returned("file.export") # {}
       /\ fs.exists => Stats.fileSize = fs.size
       /\ ~fs.exists => Stats.fileSize = 0

C7_Witness ==
    /\ script = "maya"
    /\ SuccessPrinted
    /\ Stats.meshCount = 2
    /\ fs.exists
    /\ Stats.fileSize = MaxFileSize

\* C8: both scripts; a finished run has exit code 0 exactly when it printed
\* the success record, and a run ended by a validation failure or an
\* exception has exit code 1 and printed an error record.
C8_ExitCodes ==
    Terminated
    => /\ exitCode = 0 <=> SuccessPrinted
       /\ exc.cls # "none" => (exitCode = 1 /\ ErrorPrinted)

\* C9: GLB exporter; the host calls follow the order reset, library load,
\* link, deselect, (fallback open), select, transform apply, export, size
\* read-back, the single calls at most once each; the fallback open is made
\* exactly when the library-load path counted no mesh; the export is called
\* only after the count was validated >= 1 and transform apply returned; the
\* success record is printed only after the export returned; nothing is
\* called after a call that raised.
C9_SinglePass ==
    script = "blender"
    => /\ \A i, j \in 1..Len(hostOps) :
            i < j => /\ Rank(hostOps[i].op) <= Rank(hostOps[j].op)
                     /\ Rank(hostOps[i].op) = Rank(hostOps[j].op)
                        => Repeats(hostOps[i].op)
       /\ PastFallbackCheck
          => (Cardinality(Calls("open_mainfile")) = 1 <=> LibCount = 0)
       /\ Calls("export_scene.gltf") # {}
          => /\ mesh_count >= 1
             /\ \E i \in Returned("transform_apply") :
                  \A j \in Calls("export_scene.gltf") : i < j
       /\ pc \in {"transform", "export", "stats"} => mesh_count >= 1
       /\ SuccessPrinted
          => /\ Returned("export_scene.gltf") # {}
             /\ Terminated
             /\ Len(stdout) = 1
       /\ \A i \in Raised : i = Len(hostOps)

C9_Witness ==
    /\ script = "blender"
    /\ SuccessPrinted
    /\ Returned("open_mainfile") # {}
    /\ Returned("link") # {}
    /\ Len(hostOps) >= 9

\* C10: GLB exporter; when transform apply is called the selected objects
\* are exactly the mesh-typed objects of the active scene, so no object that
\* is not a mesh has its transforms applied.
C10_SelectionIsMeshes ==
    script = "blender"
    => /\ pc = "transform" => selected = MeshObjects(scene)
       /\ applied \subseteq MeshObjects(scene)

====
